---- MODULE Spec2Model ----
(***************************************************************************)
(* Model of compress_history.py: the shell-history clean pass              *)
(* (parse_history_entry, filter, clean_history_file) and the driver main   *)
(* (shell detection, history file lookup, read, clean, backup, rewrite).   *)
(*                                                                         *)
(* A Python str is a sequence of one-character strings, so that the       *)
(* regular expression, startswith, split and readlines are computed        *)
(* character by character.                                                 *)
(***************************************************************************)
EXTENDS Integers, Sequences, FiniteSets, TLC

VARIABLES
    \* ---- clean_history_file(raw_history, shellt, dedup) ----
    raw_history,            \* argument: list of raw entries
    shellt,                 \* argument: ZSH or BASH (st of main; None before it is set)
    dedup,                  \* argument: BOOLEAN
    results,                \* local: list of kept raw entries
    unparsed,               \* local: counter of unparseable entries
    unique_parsed_entries,  \* local: set of parsed entries seen
    pos,                    \* position of the for loop in reversed(raw_history)
    \* ---- the caller of the clean pass ----
    h,                      \* the list the caller first passed
    pass,                   \* 1: first application, 2: applied to its own output
    \* ---- main() ----
    SHELL,                  \* os.environ.get("SHELL")
    fs,                     \* the files of the home directory, by file name
    pre_fs,                 \* the files as they were when the run started
    backup,                 \* the content of history_file.<epoch>.bak, or NoFile
    history_file,           \* local of main: the file name chosen
    written,                \* number of lines writelines has written
    pc                      \* control position

vars == <<raw_history, shellt, dedup, results, unparsed, unique_parsed_entries,
          pos, h, pass, SHELL, fs, pre_fs, backup, history_file, written, pc>>

clean_vars == <<raw_history, shellt, dedup, results, unparsed,
                unique_parsed_entries, pos>>
main_vars == <<SHELL, fs, pre_fs, backup, history_file, written>>

\* Bound on the number of raw entries (lines) of a history.
MaxLen == 3

-----------------------------------------------------------------------------
(* Values *)

\* Python's None: a value no str (sequence of one-character strings) equals.
None == <<"None">>

\* A path os.path.exists finds nothing at.
NoFile == <<"ENOENT">>

\* The members of the StrEnum ShellType are the strings "zsh" and "bash".
ZSH == <<"z","s","h">>
BASH == <<"b","a","s","h">>

\* The file names get_shell_history_file knows.
ZshHistory == <<".","z","s","h","_","h","i","s","t","o","r","y">>
BashHistory == <<".","b","a","s","h","_","h","i","s","t","o","r","y">>

Digits == {"0", "1", "2", "3", "4", "5", "6", "7", "8", "9"}

\* The character of s at index j; "" past either end.
At(s, j) == IF j \in 1..Len(s) THEN s[j] ELSE ""

startswith(s, p) == Len(s) >= Len(p) /\ SubSeq(s, 1, Len(p)) = p

\* The list walked oldest first.
reversed_forward(s) == s

\* The builtin reversed(): the list walked newest first.
reversed(s) == [k \in 1..Len(s) |-> s[Len(s) + 1 - k]]

-----------------------------------------------------------------------------
(* The regular expression (: \d+:\d+;)(.+) under re.search *)

\* \d+ is greedy and is followed by a literal that is no digit, so it takes
\* the whole run of digits from j: the index of its last digit, j - 1 if none.
RECURSIVE DigitsEnd(_, _)
DigitsEnd(s, j) ==
    IF j <= Len(s) /\ s[j] \in Digits THEN DigitsEnd(s, j + 1) ELSE j - 1

\* Group 1 tried at index i: the index of its ';', or 0 when it does not match.
Group1End(s, i) ==
    LET d1 == DigitsEnd(s, i + 2)
        d2 == DigitsEnd(s, d1 + 2)
    IN  IF /\ At(s, i) = ":"
           /\ At(s, i + 1) = " "
           /\ d1 >= i + 2
           /\ At(s, d1 + 1) = ":"
           /\ d2 >= d1 + 2
           /\ At(s, d2 + 1) = ";"
        THEN d2 + 1
        ELSE 0

\* '.' matches any character but a newline.
RECURSIVE DotRunEnd(_, _)
DotRunEnd(s, j) ==
    IF j <= Len(s) /\ s[j] # "\n" THEN DotRunEnd(s, j + 1) ELSE j - 1

\* Group 2 written (.*): it may be empty.
Group2Matches_star(s, j) == DotRunEnd(s, j) >= j - 1

\* Group 2 is (.+): at least one character from j on.
Group2Matches(s, j) == DotRunEnd(s, j) >= j

\* The pattern matches with group 1 starting at index i.
MatchesAt(s, i) ==
    Group1End(s, i) > 0 /\ Group2Matches(s, Group1End(s, i) + 1)

\* re.search scans from the left: the first index the pattern matches at, 0
\* when there is none. The pattern has no ^, so any index is tried.
SearchStart(s) ==
    IF \E i \in 1..Len(s) : MatchesAt(s, i)
    THEN CHOOSE i \in 1..Len(s) :
            MatchesAt(s, i) /\ \A k \in 1..(i - 1) : ~MatchesAt(s, k)
    ELSE 0

\* match.group(2) of re.search(pattern, entry), greedy up to the newline.
Group2(s) ==
    LET g == Group1End(s, SearchStart(s))
    IN  SubSeq(s, g + 1, DotRunEnd(s, g + 1))

parse_history_entry(entry, st) ==
    IF st = ZSH
    THEN IF SearchStart(entry) = 0 THEN None ELSE Group2(entry)
    ELSE entry

-----------------------------------------------------------------------------
(* The retention rules *)

_starts_with ==
    { <<"s","o","u","r","c","e">>,
      <<"g","i","t"," ","c","o","m","m","i","t">> }

_editors ==
    { <<"n","a","n","o">>, <<"v","i","m">>, <<"n","v","i","m">>,
      <<"s","u","b","l">>, <<"c","o","d","e">>, <<"e","m","a","c","s">> }

_exact_match ==
    { <<"p","y","t","h","o","n">>, <<"c","l","e","a","r">>, <<"l","s">>,
      <<"p","w","d">>, <<"c","d"," ","~">>, <<"c","d"," ","/">>, <<"c","d">>,
      <<"c","d"," ",".",".">>, <<"c","d"," ",".">> }

command_length == 60

remove_long_commands(parsed_entry) == ~(Len(parsed_entry) > command_length)

\* A retention filter that also applies the length filter.
filter_and_length(parsed_entry) ==
    /\ parsed_entry \notin _exact_match
    /\ parsed_entry \notin _editors
    /\ ~(\E s \in _starts_with : startswith(parsed_entry, s))
    /\ remove_long_commands(parsed_entry)

\* A retention filter without the prefix rules.
filter_no_prefix(parsed_entry) ==
    /\ parsed_entry \notin _exact_match
    /\ parsed_entry \notin _editors

filter(parsed_entry) ==
    IF parsed_entry \in _exact_match THEN FALSE
    ELSE IF parsed_entry \in _editors THEN FALSE
    ELSE IF Cardinality({s \in _starts_with : startswith(parsed_entry, s)}) > 0
         THEN FALSE
    ELSE TRUE

-----------------------------------------------------------------------------
(* Inputs of the clean pass *)

\* A command longer than command_length.
LongCommand == [k \in 1..(command_length + 1) |-> "a"]

\* The raw entries a history is drawn from.
Entries ==
    { <<":"," ","1",":","1",";","v","i","m">>,      \* ": 1:1;vim"
      <<":"," ","1",":","1",";","a","b">>,          \* ": 1:1;ab"
      <<":"," ","2","0",":","1",";","a","b">>,      \* ": 20:1;ab"
      <<"l","s">>,                                  \* "ls"
      <<"s","o","u","r","c","e"," ","x">>,          \* "source x"
      <<"x",":"," ","1",":","1",";","l","s">>,      \* "x: 1:1;ls"
      <<":"," ","1",":","1",";">>,                  \* ": 1:1;"
      <<":"," ","1",":","1",";","\n">>,             \* ": 1:1;\n"
      <<":"," ","1",":","1",";">> \o LongCommand }  \* ": 1:1;aaa..."

RECURSIVE SeqsUpTo(_, _)
SeqsUpTo(S, n) ==
    IF n = 0 THEN {<<>>}
    ELSE LET shorter == SeqsUpTo(S, n - 1)
         IN  shorter \cup {Append(q, e) : q \in {r \in shorter : Len(r) = n - 1}, e \in S}

Histories == SeqsUpTo(Entries, MaxLen)

-----------------------------------------------------------------------------
(* clean_history_file *)

\* The entry of the current iteration of `for entry in reversed(raw_history)`.
entry == reversed(raw_history)[pos]

parsed_entry == parse_history_entry(entry, shellt)

InLoop == pc = "loop" /\ pos <= Len(raw_history)

\* The state on entry to clean_history_file(hist, st, dd).
EnterClean(hist, st, dd) ==
    /\ raw_history' = hist
    /\ shellt' = st
    /\ dedup' = dd
    /\ results' = <<>>
    /\ unparsed' = 0
    /\ unique_parsed_entries' = {}
    /\ pos' = 1
    /\ pc' = "loop"

\* An unparseable entry put through the duplicate check as well.
LoopUnparsed_dedup ==
    /\ InLoop
    /\ parsed_entry = None
    /\ unparsed' = unparsed + 1
    /\ results' = IF dedup /\ None \in unique_parsed_entries
                  THEN results ELSE Append(results, entry)
    /\ unique_parsed_entries' = unique_parsed_entries \cup {None}
    /\ pos' = pos + 1
    /\ UNCHANGED <<raw_history, shellt, dedup, h, pass, pc>>
    /\ UNCHANGED main_vars

\* parsed_entry is None: count it, keep the raw entry, add None to the set.
LoopUnparsed ==
    /\ InLoop
    /\ parsed_entry = None
    /\ unparsed' = unparsed + 1
    /\ results' = Append(results, entry)
    /\ unique_parsed_entries' = unique_parsed_entries \cup {parsed_entry}
    /\ pos' = pos + 1
    /\ UNCHANGED <<raw_history, shellt, dedup, h, pass, pc>>
    /\ UNCHANGED main_vars

\* not keep: continue.
LoopFiltered ==
    /\ InLoop
    /\ parsed_entry # None
    /\ ~filter(parsed_entry)
    /\ pos' = pos + 1
    /\ UNCHANGED <<raw_history, shellt, dedup, results, unparsed,
                   unique_parsed_entries, h, pass, pc>>
    /\ UNCHANGED main_vars

\* dedup and parsed_entry already seen: continue.
LoopDuplicate ==
    /\ InLoop
    /\ parsed_entry # None
    /\ filter(parsed_entry)
    /\ dedup /\ parsed_entry \in unique_parsed_entries
    /\ pos' = pos + 1
    /\ UNCHANGED <<raw_history, shellt, dedup, results, unparsed,
                   unique_parsed_entries, h, pass, pc>>
    /\ UNCHANGED main_vars

\* The kept entry is appended but its parsed value is not added to the set.
LoopAppend_no_add ==
    /\ InLoop
    /\ parsed_entry # None
    /\ filter(parsed_entry)
    /\ ~(dedup /\ parsed_entry \in unique_parsed_entries)
    /\ results' = Append(results, entry)
    /\ pos' = pos + 1
    /\ UNCHANGED <<raw_history, shellt, dedup, unparsed,
                   unique_parsed_entries, h, pass, pc>>
    /\ UNCHANGED main_vars

\* Kept: append the raw entry, add the parsed entry to the set.
LoopAppend ==
    /\ InLoop
    /\ parsed_entry # None
    /\ filter(parsed_entry)
    /\ ~(dedup /\ parsed_entry \in unique_parsed_entries)
    /\ results' = Append(results, entry)
    /\ unique_parsed_entries' = unique_parsed_entries \cup {parsed_entry}
    /\ pos' = pos + 1
    /\ UNCHANGED <<raw_history, shellt, dedup, unparsed, h, pass, pc>>
    /\ UNCHANGED main_vars

\* The loop ends and the list is returned as accumulated, newest first.
ReverseAndReturn_no_reverse ==
    /\ pc = "loop"
    /\ pos > Len(raw_history)
    /\ pc' = "done"
    /\ UNCHANGED <<raw_history, shellt, dedup, results, unparsed,
                   unique_parsed_entries, pos, h, pass>>
    /\ UNCHANGED main_vars

\* The loop ends: results.reverse(); return results.
ReverseAndReturn ==
    /\ pc = "loop"
    /\ pos > Len(raw_history)
    /\ results' = [k \in 1..Len(results) |-> results[Len(results) + 1 - k]]
    /\ pc' = "done"
    /\ UNCHANGED <<raw_history, shellt, dedup, unparsed,
                   unique_parsed_entries, pos, h, pass>>
    /\ UNCHANGED main_vars

\* The caller applies the clean pass to the list the first pass returned.
CleanAgain ==
    /\ pc = "done"
    /\ pass = 1
    /\ EnterClean(results, shellt, dedup)
    /\ pass' = 2
    /\ UNCHANGED h
    /\ UNCHANGED main_vars

\* clean_history_file called on any history, for either shell and flag.
Init ==
    /\ raw_history \in Histories
    /\ shellt \in {ZSH, BASH}
    /\ dedup \in BOOLEAN
    /\ results = <<>>
    /\ unparsed = 0
    /\ unique_parsed_entries = {}
    /\ pos = 1
    /\ h = raw_history
    /\ pass = 1
    /\ SHELL = None
    /\ fs = [f \in {ZshHistory, BashHistory} |-> NoFile]
    /\ pre_fs = fs
    /\ backup = NoFile
    /\ history_file = None
    /\ written = 0
    /\ pc = "loop"

Next ==
    \/ LoopUnparsed
    \/ LoopFiltered
    \/ LoopDuplicate
    \/ LoopAppend
    \/ ReverseAndReturn
    \/ CleanAgain

Spec == Init /\ [][Next]_vars

-----------------------------------------------------------------------------
(* Properties of the clean pass, checked under Spec *)

Range(s) == {s[k] : k \in 1..Len(s)}

Parsed(e) == parse_history_entry(e, shellt)

Unparseable(e) == Parsed(e) = None

\* The retention rules as the specification lists them.
MatchesRule(p) ==
    \/ p \in _exact_match
    \/ p \in _editors
    \/ \E s \in _starts_with : startswith(p, s)

\* a is b with some entries left out.
RECURSIVE IsSubsequence(_, _)
IsSubsequence(a, b) ==
    IF a = <<>> THEN TRUE
    ELSE IF b = <<>> THEN FALSE
    ELSE IF Head(a) = Head(b) THEN IsSubsequence(Tail(a), Tail(b))
    ELSE IsSubsequence(a, Tail(b))

\* The line is exactly ': <digits>:<digits>;', with or without a newline.
EmptyTail(e) ==
    LET body == IF Len(e) > 0 /\ e[Len(e)] = "\n" THEN SubSeq(e, 1, Len(e) - 1) ELSE e
    IN  Len(body) > 0 /\ Group1End(body, 1) = Len(body)

\* C1: when the clean pass has returned, of every group of input entries that
\* share a parsed command passing the retention rules, the output holds with
\* dedup exactly one entry, the raw entry of the group's highest input index,
\* and without dedup every entry of the group, in input order.
C1_LastOccurrenceKept ==
    pc = "done" =>
        \A j \in 1..Len(raw_history) :
            LET p == Parsed(raw_history[j])
                group == {k \in 1..Len(raw_history) : Parsed(raw_history[k]) = p}
                last == CHOOSE k \in group : \A m \in group : m <= k
                kept == {k \in 1..Len(results) : Parsed(results[k]) = p}
                SameCommand(e) == Parsed(e) = p
            IN  (p # None /\ ~MatchesRule(p)) =>
                    IF dedup
                    THEN /\ Cardinality(kept) = 1
                         /\ \A k \in kept : results[k] = raw_history[last]
                    ELSE SelectSeq(results, SameCommand)
                            = SelectSeq(raw_history, SameCommand)

\* Two different zsh lines with the same command, the earlier one dropped.
C1_Witness ==
    /\ pc = "done" /\ pass = 1 /\ dedup /\ shellt = ZSH
    /\ \E j, k \in 1..Len(raw_history) :
          /\ j < k
          /\ raw_history[j] # raw_history[k]
          /\ Parsed(raw_history[j]) = Parsed(raw_history[k])
          /\ Parsed(raw_history[j]) # None
          /\ ~MatchesRule(Parsed(raw_history[j]))
          /\ raw_history[j] \notin Range(results)
          /\ raw_history[k] \in Range(results)

\* C2: when the clean pass has returned, no output entry has a parsed command
\* that is in the exact-match set, in the editor set, or starts with a member
\* of the prefix set.
C2_NoRejectedCommandSurvives ==
    pc = "done" =>
        \A k \in 1..Len(results) :
            Parsed(results[k]) # None => ~MatchesRule(Parsed(results[k]))

\* A bash history with an exact-match command and a prefix-rule command, dedup off.
C2_Witness ==
    /\ pc = "done" /\ pass = 1 /\ ~dedup /\ shellt = BASH
    /\ \E j, k \in 1..Len(raw_history) :
          /\ raw_history[j] \in _exact_match
          /\ \E s \in _starts_with : startswith(raw_history[k], s)
    /\ Len(results) > 0

\* C3: when the clean pass has returned, the unparseable entries of the output
\* are the unparseable entries of the input: same entries, same multiplicity,
\* same order.
C3_UnparseableKept ==
    pc = "done" =>
        SelectSeq(results, Unparseable) = SelectSeq(raw_history, Unparseable)

\* A zsh history with the same unparseable line twice and dedup on.
C3_Witness ==
    /\ pc = "done" /\ pass = 1 /\ dedup /\ shellt = ZSH
    /\ None \in unique_parsed_entries
    /\ \E j, k \in 1..Len(raw_history) :
          /\ j < k
          /\ raw_history[j] = raw_history[k]
          /\ Unparseable(raw_history[j])
    /\ unparsed >= 2

\* C4: when the clean pass has returned, the output is a subsequence of the
\* input: verbatim input entries in their input order.
C4_OutputIsSubsequence ==
    pc = "done" => IsSubsequence(results, raw_history)

\* An output of two different entries with an input entry dropped.
C4_Witness ==
    /\ pc = "done" /\ pass = 1
    /\ Len(results) = 2
    /\ results[1] # results[2]
    /\ Len(raw_history) = 3

\* C5: with dedup, the clean pass applied to its own output returns that
\* output unchanged.
C5_Idempotent ==
    (pc = "done" /\ pass = 2 /\ dedup) => results = raw_history

\* A second pass has returned over a first pass that dropped entries.
C5_Witness ==
    /\ pc = "done" /\ pass = 2 /\ dedup
    /\ Len(results) >= 2
    /\ Len(h) > Len(raw_history)

\* C8 as stated: a zsh line ': <digits>:<digits>;' with an empty tail parses
\* to the empty string, so with dedup at most one such line survives.
C8_EmptyTailIsEmptyCommand ==
    (pc = "done" /\ shellt = ZSH /\ dedup) =>
        /\ \A j \in 1..Len(raw_history) :
              EmptyTail(raw_history[j]) =>
                  parse_history_entry(raw_history[j], ZSH) = <<>>
        /\ Cardinality({k \in 1..Len(results) : EmptyTail(results[k])}) <= 1

\* C8 amended: a zsh line ': <digits>:<digits>;' with an empty tail, with or
\* without a newline, is unparseable (None), and every such line is kept.
C8_EmptyTailIsUnparseable ==
    (pc = "done" /\ shellt = ZSH) =>
        /\ \A j \in 1..Len(raw_history) :
              EmptyTail(raw_history[j]) =>
                  parse_history_entry(raw_history[j], ZSH) = None
        /\ SelectSeq(results, EmptyTail) = SelectSeq(raw_history, EmptyTail)

\* Two empty-tail lines, with and without newline, both kept under dedup.
C8_Witness ==
    /\ pc = "done" /\ pass = 1 /\ shellt = ZSH /\ dedup
    /\ \E j, k \in 1..Len(results) :
          /\ j # k
          /\ EmptyTail(results[j]) /\ EmptyTail(results[k])
          /\ results[j] # results[k]

\* C9 as stated: for zsh, a line that does not begin with a timestamp prefix
\* is unparseable and kept, and a parsed line is its own tail after the
\* timestamp prefix it begins with.
C9_OnlyLeadingTimestampParses ==
    (pc = "done" /\ shellt = ZSH) =>
        \A j \in 1..Len(raw_history) :
            LET e == raw_history[j]
            IN  /\ Group1End(e, 1) = 0 =>
                      (Parsed(e) = None /\ e \in Range(results))
                /\ Parsed(e) # None =>
                      (Group1End(e, 1) > 0
                       /\ Parsed(e) = SubSeq(e, Group1End(e, 1) + 1, DotRunEnd(e, Group1End(e, 1) + 1)))

\* C10: when the clean pass has returned, every input entry whose parsed
\* command is longer than command_length, passes the retention rules and has
\* no later entry with the same parsed command is in the output.
C10_LongCommandKept ==
    pc = "done" =>
        \A j \in 1..Len(raw_history) :
            LET p == Parsed(raw_history[j])
            IN  (/\ p # None
                 /\ Len(p) > command_length
                 /\ ~MatchesRule(p)
                 /\ \A k \in (j + 1)..Len(raw_history) : Parsed(raw_history[k]) # p)
                => raw_history[j] \in Range(results)

\* A long command kept, for either shell.
C10_Witness ==
    /\ pc = "done" /\ pass = 1
    /\ \E k \in 1..Len(results) :
          /\ Parsed(results[k]) # None
          /\ Len(Parsed(results[k])) > command_length
          /\ ~remove_long_commands(Parsed(results[k]))
    /\ Len(raw_history) > Len(results)

-----------------------------------------------------------------------------
(* main: shell detection, history file lookup, read, clean, backup, rewrite *)

\* shell.split("/")[-1]: what follows the last '/', all of it if there is none.
RECURSIVE LastSlash(_, _)
LastSlash(s, j) ==
    IF j = 0 THEN 0 ELSE IF s[j] = "/" THEN j ELSE LastSlash(s, j - 1)

LastComponent(s) == SubSeq(s, LastSlash(s, Len(s)) + 1, Len(s))

\* ShellType(value): the member whose value it is, None for the ValueError.
ShellType(value) == IF value \in {ZSH, BASH} THEN value ELSE None

\* The file name get_shell_history_file picks for the shell.
Filename(st) == IF st = ZSH THEN ZshHistory ELSE BashHistory

\* f.readlines(): the content cut after each newline, terminators kept.
RECURSIVE FirstNewline(_, _)
FirstNewline(c, j) ==
    IF j >= Len(c) THEN Len(c) ELSE IF c[j] = "\n" THEN j ELSE FirstNewline(c, j + 1)

RECURSIVE readlines(_)
readlines(c) ==
    IF c = <<>> THEN <<>>
    ELSE LET n == FirstNewline(c, 1)
         IN  <<SubSeq(c, 1, n)>> \o readlines(SubSeq(c, n + 1, Len(c)))

\* The values of the SHELL environment variable; None when it is unset.
ShellValues ==
    { None,
      <<>>,
      <<"/","b","i","n","/","z","s","h">>,
      <<"/","b","i","n","/","b","a","s","h">>,
      <<"b","a","s","h">>,
      <<"/","b","i","n","/","s","h">>,
      <<"/","b","i","n","/","z","s","h","/">> }

\* The lines a history file is made of; the last one has no terminator.
FileLines ==
    { <<":"," ","1",":","1",";","a","b","\n">>,
      <<":"," ","2","0",":","1",";","a","b","\n">>,
      <<":"," ","1",":","1",";","l","s","\n">>,
      <<"l","s","\n">>,
      <<"v","i","m">> }

RECURSIVE Concat(_)
Concat(q) == IF q = <<>> THEN <<>> ELSE Head(q) \o Concat(Tail(q))

FileContents == {Concat(q) : q \in SeqsUpTo(FileLines, MaxLen)}

\* SHELL unset or empty: print, sys.exit(1).
GetShellTypeUnset ==
    /\ pc = "get_shell_type"
    /\ (SHELL = None \/ SHELL = <<>>)
    /\ pc' = "exit1"
    /\ UNCHANGED <<h, pass>>
    /\ UNCHANGED clean_vars
    /\ UNCHANGED main_vars

\* ShellType(...) raises: print, sys.exit(1).
GetShellTypeUnsupported ==
    /\ pc = "get_shell_type"
    /\ ~(SHELL = None \/ SHELL = <<>>)
    /\ ShellType(LastComponent(SHELL)) = None
    /\ pc' = "exit1"
    /\ UNCHANGED <<h, pass>>
    /\ UNCHANGED clean_vars
    /\ UNCHANGED main_vars

GetShellType ==
    /\ pc = "get_shell_type"
    /\ ~(SHELL = None \/ SHELL = <<>>)
    /\ ShellType(LastComponent(SHELL)) # None
    /\ shellt' = ShellType(LastComponent(SHELL))
    /\ pc' = "get_shell_history_file"
    /\ UNCHANGED <<raw_history, dedup, results, unparsed,
                   unique_parsed_entries, pos, h, pass>>
    /\ UNCHANGED main_vars

\* os.path.exists(file) is false: print, sys.exit(1).
GetHistoryFileMissing ==
    /\ pc = "get_shell_history_file"
    /\ fs[Filename(shellt)] = NoFile
    /\ pc' = "exit1"
    /\ UNCHANGED <<h, pass>>
    /\ UNCHANGED clean_vars
    /\ UNCHANGED main_vars

GetHistoryFile ==
    /\ pc = "get_shell_history_file"
    /\ fs[Filename(shellt)] # NoFile
    /\ history_file' = Filename(shellt)
    /\ pc' = "read"
    /\ UNCHANGED <<h, pass>>
    /\ UNCHANGED clean_vars
    /\ UNCHANGED <<SHELL, fs, pre_fs, backup, written>>

\* history = f.readlines(); clean_history_file(history, st) is entered.
ReadHistory ==
    /\ pc = "read"
    /\ EnterClean(readlines(fs[history_file]), shellt, TRUE)
    /\ h' = readlines(fs[history_file])
    /\ UNCHANGED pass
    /\ UNCHANGED main_vars

\* The step to the rewrite with no backup copy made.
CopyBackup_skip ==
    /\ pc = "done"
    /\ pc' = "copied"
    /\ UNCHANGED <<h, pass>>
    /\ UNCHANGED clean_vars
    /\ UNCHANGED main_vars

\* shutil.copy(history_file, history_file + ".<epoch>.bak")
CopyBackup ==
    /\ pc = "done"
    /\ backup' = fs[history_file]
    /\ pc' = "copied"
    /\ UNCHANGED <<h, pass>>
    /\ UNCHANGED clean_vars
    /\ UNCHANGED <<SHELL, fs, pre_fs, history_file, written>>

\* open(history_file, "w") truncates the file.
OpenForWrite ==
    /\ pc = "copied"
    /\ fs' = [fs EXCEPT ![history_file] = <<>>]
    /\ written' = 0
    /\ pc' = "write"
    /\ UNCHANGED <<h, pass>>
    /\ UNCHANGED clean_vars
    /\ UNCHANGED <<SHELL, pre_fs, backup, history_file>>

\* f.writelines(cleaned_history), one line at a time.
WriteLine ==
    /\ pc = "write"
    /\ written < Len(results)
    /\ fs' = [fs EXCEPT ![history_file] = @ \o results[written + 1]]
    /\ written' = written + 1
    /\ UNCHANGED <<h, pass, pc>>
    /\ UNCHANGED clean_vars
    /\ UNCHANGED <<SHELL, pre_fs, backup, history_file>>

\* The with block ends: the file is closed and main returns.
CloseFile ==
    /\ pc = "write"
    /\ written = Len(results)
    /\ pc' = "main_done"
    /\ UNCHANGED <<h, pass>>
    /\ UNCHANGED clean_vars
    /\ UNCHANGED main_vars

\* One run of main, for any SHELL and any history files.
MainInit ==
    /\ SHELL \in ShellValues
    /\ \E c \in FileContents, ez, eb \in BOOLEAN :
          fs = [f \in {ZshHistory, BashHistory} |->
                   IF (f = ZshHistory /\ ez) \/ (f = BashHistory /\ eb)
                   THEN c ELSE NoFile]
    /\ pre_fs = fs
    /\ backup = NoFile
    /\ history_file = None
    /\ written = 0
    /\ raw_history = <<>>
    /\ shellt = None
    /\ dedup = TRUE
    /\ results = <<>>
    /\ unparsed = 0
    /\ unique_parsed_entries = {}
    /\ pos = 1
    /\ h = <<>>
    /\ pass = 1
    /\ pc = "get_shell_type"

MainNext ==
    \/ GetShellTypeUnset
    \/ GetShellTypeUnsupported
    \/ GetShellType
    \/ GetHistoryFileMissing
    \/ GetHistoryFile
    \/ ReadHistory
    \/ LoopUnparsed
    \/ LoopFiltered
    \/ LoopDuplicate
    \/ LoopAppend
    \/ ReverseAndReturn
    \/ CopyBackup
    \/ OpenForWrite
    \/ WriteLine
    \/ CloseFile

MainSpec == MainInit /\ [][MainNext]_vars

-----------------------------------------------------------------------------
(* Properties of main, checked under MainSpec *)

\* C6: in every state of a run of main the pre-run content of the history
\* file is in the history file or in the backup; the backup holds it from
\* before the file is opened for writing; no other file changes; and a run
\* that exits fatally has made no backup and changed no file.
C6_OriginalRecoverable ==
    /\ history_file = None => (fs = pre_fs /\ backup = NoFile)
    /\ history_file # None =>
          /\ \/ fs[history_file] = pre_fs[history_file]
             \/ backup = pre_fs[history_file]
          /\ \A f \in DOMAIN fs : f # history_file => fs[f] = pre_fs[f]
    /\ pc \in {"write", "main_done"} => backup = pre_fs[history_file]
    /\ pc = "exit1" => (fs = pre_fs /\ backup = NoFile)

\* The file is being rewritten, differs from its pre-run content, and the
\* backup holds that content.
C6_Witness ==
    /\ pc = "write"
    /\ history_file # None
    /\ fs[history_file] # pre_fs[history_file]
    /\ backup = pre_fs[history_file]
    /\ Len(pre_fs[history_file]) > 0

\* The command text of a line: the line without its terminator and, for zsh,
\* without the timestamp prefix it begins with.
CommandText(line, st) ==
    LET body == IF Len(line) > 0 /\ line[Len(line)] = "\n"
                THEN SubSeq(line, 1, Len(line) - 1) ELSE line
    IN  IF st = ZSH /\ Group1End(body, 1) > 0
        THEN SubSeq(body, Group1End(body, 1) + 1, Len(body))
        ELSE body

\* C7 as stated: after main the rewritten history file has no line whose
\* command text is in the exact-match set or the editor set, and no two lines
\* with the same command text.
C7_RewrittenFileIsClean ==
    pc = "main_done" =>
        LET lines == readlines(fs[history_file])
        IN  \A j \in 1..Len(lines) :
                /\ CommandText(lines[j], shellt) \notin _exact_match
                /\ CommandText(lines[j], shellt) \notin _editors
                /\ \A k \in 1..Len(lines) :
                      k # j => CommandText(lines[k], shellt) # CommandText(lines[j], shellt)

====
